---- MODULE Spec2Model ----
(***************************************************************************)
(* A model of report_generator.py: process_notebook loads a notebook,      *)
(* executes it with nbconvert's ExecutePreprocessor, and renders every     *)
(* cell and every output into a NotebookReportPDF (an FPDF document).      *)
(*                                                                         *)
(* The FPDF object is modelled by the state the program sets and reads:    *)
(* the append-only list of emitted blocks, the current font, the current   *)
(* fill colour and the current text colour.  Every block records the font  *)
(* and colours it was emitted with.  The vertical cursor and pagination    *)
(* (ln, auto page break) belong to the typesetting engine and are left     *)
(* out, and the engine accepts every text it is given.  One call of a      *)
(* method of the document is one step: the colour changes around an error  *)
(* line happen inside the step that emits it, and show in the colour the   *)
(* block records.  Python values that the code tests with isinstance are   *)
(* tagged                                                                  *)
(* (Str, List); dictionaries are functions whose DOMAIN is the key set, so *)
(* dict.get(key, default) is Get.                                          *)
(***************************************************************************)
EXTENDS Integers, Sequences, FiniteSets, TLC

VARIABLES
    args,      \* <<student_name, assignment_name>>
    loaded,    \* the notebook as nbformat.read returned it (never written)
    nb,        \* the notebook object bound to nb in process_notebook
    failed,    \* TRUE iff the except branch of the execution try was taken
    pc,        \* position in process_notebook
    ex,        \* cells ep.preprocess has gone through so far
    i,         \* index of enumerate(cells): cells completely rendered
    j,         \* outputs of the current code cell completely rendered
    pdf,       \* the NotebookReportPDF object
    files      \* names of the temporary files that exist on disk

vars == <<args, loaded, nb, failed, pc, ex, i, j, pdf, files>>

(***************************************************************************)
(* Bounds of the model.                                                    *)
(***************************************************************************)
MaxCells == 2
MaxOutputs == 2

(***************************************************************************)
(* Python values.                                                          *)
(***************************************************************************)
Str(s) == [t |-> "str", s |-> s]
List(l) == [t |-> "list", l |-> l]

Get(d, key, default) == IF key \in DOMAIN d THEN d[key] ELSE default

RECURSIVE JoinList(_, _)
JoinList(sep, l) ==
    IF l = <<>> THEN ""
    ELSE IF Len(l) = 1 THEN l[1]
    ELSE l[1] \o sep \o JoinList(sep, Tail(l))

\* ''.join(v): for a list the fragments in order, for a str its characters,
\* which is the str itself.
JoinEmpty(v) == IF v.t = "list" THEN JoinList("", v.l) ELSE v.s

Min(a, b) == IF a <= b THEN a ELSE b

\* An exact quotient num / den, kept unevaluated.
Frac(n, d) == [num |-> n, den |-> d]

(***************************************************************************)
(* The FPDF object.                                                        *)
(***************************************************************************)
PageW == 210
LMargin == 10

Black == <<0, 0, 0>>
Red == <<255, 0, 0>>
NoFill == <<>>
Timestamp == "2026-01-01 00:00"

set_font(p, family, style, size) == [p EXCEPT !.font = <<family, style, size>>]
set_fill_color(p, r, g, b) == [p EXCEPT !.fill_color = <<r, g, b>>]
set_text_color(p, r, g, b) == [p EXCEPT !.text_color = <<r, g, b>>]

\* FPDF.cell and FPDF.multi_cell: one text block in the current style.
cell(p, kind, txt, fill) ==
    [p EXCEPT !.doc = Append(@, [kind |-> kind, text |-> txt, font |-> p.font,
                                 text_color |-> p.text_color,
                                 fill |-> IF fill THEN p.fill_color ELSE NoFill])]

FPDF0 == [doc |-> <<>>, font |-> <<"", "", 12>>, fill_color |-> Black,
          text_color |-> Black]

NotebookReportPDF(student_name, assignment_name) ==
    LET p1 == set_font(FPDF0, "Arial", "B", 16)
        p2 == cell(p1, "header", "Jupyter Notebook Assignment Report", FALSE)
        p3 == set_font(p2, "Arial", "", 12)
        p4 == cell(p3, "header", "Student: " \o student_name, FALSE)
        p5 == cell(p4, "header", "Assignment: " \o assignment_name, FALSE)
    IN  cell(p5, "header", "Date: " \o Timestamp, FALSE)

add_cell_marker(p, cell_type, cell_number) ==
    LET p1 == set_font(p, "Arial", "B", 12)
        p2 == set_fill_color(p1, 220, 220, 220)
    IN  cell(p2, "marker",
             "Cell " \o ToString(cell_number) \o " (" \o cell_type \o ")", TRUE)

add_code(p, code) ==
    LET p1 == set_font(p, "Courier", "", 10)
        p2 == set_fill_color(p1, 240, 240, 240)
    IN  cell(p2, "code", code, TRUE)

add_markdown(p, txt) ==
    LET p1 == set_font(p, "Arial", "B", 12)
        p2 == set_fill_color(p1, 245, 245, 250)
    IN  cell(p2, "markdown", txt, TRUE)

add_raw(p, txt, format_type) ==
    LET p1 == set_font(p, "Arial", "B", 10)
        p2 == set_fill_color(p1, 255, 245, 230)
        p3 == IF format_type # ""
              THEN set_font(cell(set_font(p2, "Arial", "I", 10), "raw_label",
                                 "Format: " \o format_type, FALSE),
                            "Courier", "", 10)
              ELSE p2
    IN  cell(p3, "raw", txt, TRUE)

add_output(p, output_text) ==
    cell(set_font(p, "Courier", "", 10), "output", output_text, FALSE)

(***************************************************************************)
(* add_image.  An image/png payload is a base64 string, modelled by what   *)
(* decoding it gives: enc = "bad" is a string base64.b64decode rejects;    *)
(* otherwise bytes is the decoded content, which PIL identifies as a PNG   *)
(* of width x height pixels (fmt = "png") or cannot identify (fmt =        *)
(* "junk").  FPDF's PNG parser rejects an interlaced PNG that PIL opens.   *)
(***************************************************************************)
b64decode(img_data) ==
    IF img_data.enc = "ok"
    THEN [ok |-> TRUE, val |-> img_data.bytes]
    ELSE [ok |-> FALSE, err |-> "Incorrect padding"]

ImageOpen(bytes) ==
    IF bytes.fmt = "png"
    THEN [ok |-> TRUE, width |-> bytes.width, height |-> bytes.height]
    ELSE [ok |-> FALSE, err |-> "cannot identify image file"]

\* FPDF.image(name, x=x, w=w): h is left to FPDF, which derives it from the
\* file's own dimensions as w * height / width.
FpdfImage(p, bytes, x, w) ==
    IF bytes.interlaced
    THEN [ok |-> FALSE, err |-> "Interlacing not supported"]
    ELSE [ok |-> TRUE,
          pdf |-> [p EXCEPT !.doc =
                      Append(@, [kind |-> "image", x |-> x, w |-> w,
                                 h |-> Frac(w * bytes.height, bytes.width)])]]

\* Fault: the image is always stretched to the usable width.
TargetWidthFillsPage(page_width, native_width) == page_width

\* Line 76: the width the image is placed with.
TargetWidth(page_width, native_width) == Min(page_width, native_width)

\* Line 80: x = l_margin + (page_width - img_width) / 2, as an exact quotient.
LeftOffset(page_width, img_width) ==
    Frac(2 * LMargin + (page_width - img_width), 2)

\* Line 85: os.unlink(temp_filename).
Unlink(fs, temp_filename) == fs \ {temp_filename}

\* Lines 63-85, the body of the try: the outcome is either completion or
\* the exception raised, with the document and the files as they are then.
AddImageTry(p, fs, img_data, temp_filename) ==
    LET fs1 == fs \cup {temp_filename}
        dec == b64decode(img_data)
    IN  IF ~dec.ok THEN [ok |-> FALSE, err |-> dec.err, pdf |-> p, files |-> fs1]
        ELSE
        LET img == ImageOpen(dec.val)
        IN  IF ~img.ok
            THEN [ok |-> FALSE, err |-> img.err, pdf |-> p, files |-> fs1]
            ELSE
            LET page_width == PageW - 2 * LMargin
                img_width == TargetWidth(page_width, img.width)
                x == LeftOffset(page_width, img_width)
                emb == FpdfImage(p, dec.val, x, img_width)
            IN  IF ~emb.ok
                THEN [ok |-> FALSE, err |-> emb.err, pdf |-> p, files |-> fs1]
                ELSE [ok |-> TRUE, err |-> "", pdf |-> emb.pdf,
                      files |-> Unlink(fs1, temp_filename)]

\* Fault: the handler catches the base64 error only.
CatchesDecodeErrorOnly(err) == err = "Incorrect padding"

\* Line 87: except Exception catches whatever the body raised.
Catches(err) == TRUE

\* Line 90: the text colour after the error line.
ImageErrorRestore(p) == set_text_color(p, 0, 0, 0)

\* Lines 88-91, the handler.
AddImageExcept(p, err) ==
    LET p1 == set_text_color(p, 255, 0, 0)
        p2 == cell(p1, "image_error", "Error displaying image: " \o err, FALSE)
    IN  ImageErrorRestore(p2)

\* add_image: the new document and files, and whether an exception left it.
add_image(p, fs, img_data, temp_filename) ==
    LET r == AddImageTry(p, fs, img_data, temp_filename)
    IN  IF r.ok THEN [pdf |-> r.pdf, files |-> r.files, raised |-> FALSE]
        ELSE IF Catches(r.err)
        THEN [pdf |-> AddImageExcept(r.pdf, r.err), files |-> r.files,
              raised |-> FALSE]
        ELSE [pdf |-> r.pdf, files |-> r.files, raised |-> TRUE]

(***************************************************************************)
(* process_notebook, lines 131-174: the rendering of one output and of one *)
(* cell.                                                                   *)
(***************************************************************************)
EmptyDict == [k \in {} |-> k]
NoFragments == List(<<>>)

\* Fault: the text colour is not set back after an error output.
ErrorRestoreOmitted(p) == p

\* Line 161: the text colour after an error output.
ErrorRestore(p) == set_text_color(p, 0, 0, 0)

\* Lines 146-147.
StreamOutput(p, output) ==
    add_output(p, Get(output, "name", "output") \o ": "
                  \o JoinEmpty(Get(output, "text", NoFragments)))

\* Lines 155-161.
ErrorOutput(p, output) ==
    LET error_name == Get(output, "ename", "Error")
        error_value == Get(output, "evalue", "")
        traceback == JoinList("\n", Get(output, "traceback", <<>>))
        p1 == set_text_color(p, 255, 0, 0)
        p2 == add_output(p1, error_name \o ": " \o error_value \o "\n"
                             \o traceback)
    IN  ErrorRestore(p2)

\* Fault: the image is emitted before the text of the same output.
DisplayOutputImageFirst(p, fs, output, temp_filename) ==
    LET data == Get(output, "data", EmptyDict)
        r == IF "image/png" \in DOMAIN data
             THEN add_image(p, fs, data["image/png"], temp_filename)
             ELSE [pdf |-> p, files |-> fs, raised |-> FALSE]
    IN  IF "text/plain" \in DOMAIN data /\ ~r.raised
        THEN [r EXCEPT !.pdf = add_output(@, JoinEmpty(data["text/plain"]))]
        ELSE r

\* Lines 149-154.
DisplayOutput(p, fs, output, temp_filename) ==
    LET data == Get(output, "data", EmptyDict)
        p1 == IF "text/plain" \in DOMAIN data
              THEN add_output(p, JoinEmpty(data["text/plain"]))
              ELSE p
    IN  IF "image/png" \in DOMAIN data
        THEN add_image(p1, fs, data["image/png"], temp_filename)
        ELSE [pdf |-> p1, files |-> fs, raised |-> FALSE]

\* Fault: an output of an unrecognised type is shown as a placeholder line.
ProcessOutputShowsUnknown(p, fs, output, temp_filename) ==
    LET output_type == Get(output, "output_type", "")
    IN  IF output_type = "stream"
        THEN [pdf |-> StreamOutput(p, output), files |-> fs, raised |-> FALSE]
        ELSE IF output_type \in {"display_data", "execute_result"}
        THEN DisplayOutput(p, fs, output, temp_filename)
        ELSE IF output_type = "error"
        THEN [pdf |-> ErrorOutput(p, output), files |-> fs, raised |-> FALSE]
        ELSE [pdf |-> add_output(p, "[" \o output_type \o "]"), files |-> fs,
              raised |-> FALSE]

\* Lines 144-161, one iteration of the loop over outputs.
ProcessOutput(p, fs, output, temp_filename) ==
    LET output_type == Get(output, "output_type", "")
    IN  IF output_type = "stream"
        THEN [pdf |-> StreamOutput(p, output), files |-> fs, raised |-> FALSE]
        ELSE IF output_type \in {"display_data", "execute_result"}
        THEN DisplayOutput(p, fs, output, temp_filename)
        ELSE IF output_type = "error"
        THEN [pdf |-> ErrorOutput(p, output), files |-> fs, raised |-> FALSE]
        ELSE [pdf |-> p, files |-> fs, raised |-> FALSE]

\* Line 132.
CellType(c) == Get(c, "cell_type", "unknown")

\* Lines 139, 164, 168.
Source(c) == JoinEmpty(Get(c, "source", NoFragments))

\* Fault: the elements of a format sequence are joined without separator.
FormatTypeJoinedBare(c) ==
    LET metadata == Get(c, "metadata", EmptyDict)
        format_type == Get(metadata, "format", Str(""))
    IN  IF format_type.t = "list" THEN JoinList("", format_type.l)
        ELSE format_type.s

\* Lines 170-173.
FormatType(c) ==
    LET metadata == Get(c, "metadata", EmptyDict)
        format_type == Get(metadata, "format", Str(""))
    IN  IF format_type.t = "list" THEN JoinList(", ", format_type.l)
        ELSE format_type.s

\* Line 142.
Outputs(c) == Get(c, "outputs", <<>>)

\* Fault: the cell number is the enumerate index itself.
CellNumberZeroBased(idx) == idx

\* Line 133.
CellNumber(idx) == idx + 1

\* Fault: a cell of any other type is rendered as markdown.
CellHeadOtherAsMarkdown(p, c, idx) ==
    LET cell_type == CellType(c)
        p1 == add_cell_marker(p, cell_type, CellNumber(idx))
    IN  IF cell_type = "code" THEN add_code(p1, Source(c))
        ELSE IF cell_type = "raw" THEN add_raw(p1, Source(c), FormatType(c))
        ELSE add_markdown(p1, Source(c))

\* Lines 132-140 and 163-174: the marker of the cell at enumerate index idx
\* and the content block of its own; the outputs of a code cell follow.
CellHead(p, c, idx) ==
    LET cell_type == CellType(c)
        p1 == add_cell_marker(p, cell_type, CellNumber(idx))
    IN  IF cell_type = "code" THEN add_code(p1, Source(c))
        ELSE IF cell_type = "markdown" THEN add_markdown(p1, Source(c))
        ELSE IF cell_type = "raw" THEN add_raw(p1, Source(c), FormatType(c))
        ELSE p1

\* The temporary file of the add_image call for output k of cell idx: each
\* call gets a name of its own from NamedTemporaryFile.
TempName(idx, k) == <<idx, k>>

\* Lines 143-161: the loop over the outputs from output k + 1 on.
RECURSIVE RenderOutputs(_, _, _, _)
RenderOutputs(st, outs, idx, k) ==
    IF st.raised \/ k >= Len(outs) THEN st
    ELSE RenderOutputs(ProcessOutput(st.pdf, st.files, outs[k + 1],
                                     TempName(idx, k)),
                       outs, idx, k + 1)

\* Lines 131-174: the loop over the cells from cell idx + 1 on.
RECURSIVE RenderCells(_, _, _)
RenderCells(st, cells, idx) ==
    IF st.raised \/ idx >= Len(cells) THEN st
    ELSE LET c == cells[idx + 1]
             head == [st EXCEPT !.pdf = CellHead(st.pdf, c, idx)]
         IN  RenderCells(IF CellType(c) = "code"
                         THEN RenderOutputs(head, Outputs(c), idx, 0)
                         ELSE head,
                         cells, idx + 1)

\* Lines 128-176 as a function of the notebook.
RenderNotebook(names, notebook) ==
    RenderCells([pdf |-> NotebookReportPDF(names[1], names[2]), files |-> {},
                 raised |-> FALSE],
                notebook.cells, 0)

(***************************************************************************)
(* The notebooks process_notebook is run on.                               *)
(***************************************************************************)
Png(w, h) == [enc |-> "ok", bytes |-> [fmt |-> "png", width |-> w,
                                       height |-> h, interlaced |-> FALSE]]
InterlacedPng == [enc |-> "ok", bytes |-> [fmt |-> "png", width |-> 64,
                                           height |-> 48, interlaced |-> TRUE]]
JunkBytes == [enc |-> "ok", bytes |-> [fmt |-> "junk"]]
BadBase64 == [enc |-> "bad"]

BadPayloads == {BadBase64, JunkBytes, InterlacedPng}
GoodPayload == Png(95, 40)

Dict1(k, v) == k :> v
Dict2(k1, v1, k2, v2) == (k1 :> v1) @@ (k2 :> v2)

StreamOutputs ==
    { [output_type |-> "stream", name |-> "stdout", text |-> Str("1\n")],
      [output_type |-> "stream", text |-> List(<<"a", "b">>)] }

DisplayOutputs ==
    { [output_type |-> "execute_result",
       data |-> Dict1("text/plain", Str("2"))],
      [output_type |-> "display_data",
       data |-> Dict2("text/plain", List(<<"<Fig", "ure>">>),
                      "image/png", GoodPayload)],
      [output_type |-> "display_data",
       data |-> Dict1("image/png", BadBase64)],
      [output_type |-> "execute_result",
       data |-> Dict2("text/plain", Str("<PIL>"), "image/png", JunkBytes)],
      [output_type |-> "display_data",
       data |-> Dict1("image/png", InterlacedPng)] }

EmptyDisplayOutputs ==
    { [output_type |-> "display_data", data |-> EmptyDict],
      [output_type |-> "execute_result",
       data |-> Dict1("text/html", Str("<b>2</b>"))] }

ErrorOutputs ==
    { [output_type |-> "error", ename |-> "ZeroDivisionError",
       evalue |-> "division by zero",
       traceback |-> <<"Traceback", "ZeroDivisionError">>],
      [output_type |-> "error"] }

OtherOutputs ==
    { [output_type |-> "update_display_data",
       data |-> Dict1("text/plain", Str("3"))],
      [metadata |-> EmptyDict] }

OutputSet ==
    StreamOutputs \cup DisplayOutputs \cup EmptyDisplayOutputs
        \cup ErrorOutputs \cup OtherOutputs

\* Native image sizes on both sides of the usable page width.
ImageWidths ==
    {1, 95, PageW - 2 * LMargin - 1, PageW - 2 * LMargin,
     PageW - 2 * LMargin + 1, 2 * (PageW - 2 * LMargin)}
ImageHeights == {1, 100}

ImageOutputs ==
    { [output_type |-> "display_data", data |-> Dict1("image/png", Png(w, h))] :
        w \in ImageWidths, h \in ImageHeights }

RawCells ==
    { [cell_type |-> "raw", source |-> Str("---\n")],
      [cell_type |-> "raw", source |-> Str("x"), metadata |-> EmptyDict],
      [cell_type |-> "raw", metadata |-> Dict1("format", Str("text/html"))],
      [cell_type |-> "raw", source |-> List(<<"a", "b">>),
       metadata |-> Dict1("format", List(<<"text/x-python", "text/plain">>))],
      [cell_type |-> "raw", source |-> Str("x"),
       metadata |-> Dict1("format", Str(""))],
      [cell_type |-> "raw", source |-> Str("x"),
       metadata |-> Dict1("format", List(<<>>))],
      [cell_type |-> "raw", source |-> Str("x"),
       metadata |-> Dict1("format", List(<<"">>))] }

MarkdownCells ==
    { [cell_type |-> "markdown", source |-> Str("# Title")],
      [cell_type |-> "markdown", source |-> List(<<"# ", "Title">>)],
      [cell_type |-> "markdown"] }

UnknownCells ==
    { [source |-> Str("no type")],
      [cell_type |-> "heading", source |-> Str("old")] }

PlainCodeCells ==
    { [cell_type |-> "code", source |-> Str("print(1)"), outputs |-> <<>>],
      [cell_type |-> "code", source |-> List(<<"a = 1\n", "a">>)],
      [cell_type |-> "code"],
      [cell_type |-> "code", source |-> Str(""),
       outputs |-> <<[output_type |-> "stream", name |-> "stdout",
                      text |-> Str("1\n")]>>] }

BasicCells == RawCells \cup MarkdownCells \cup UnknownCells \cup PlainCodeCells

SeqsUpTo(S, n) == UNION { [1..m -> S] : m \in 0..n }

CodeCell(outs) ==
    [cell_type |-> "code", source |-> Str("run()"), outputs |-> outs]

Tails ==
    { <<>>,
      <<[cell_type |-> "markdown", source |-> Str("end")]>>,
      <<CodeCell(<<[output_type |-> "stream", name |-> "stdout",
                    text |-> Str("1\n")]>>)>> }

\* A code cell with a stream, a result with text and image, and an error; a
\* markdown, a code and a raw cell.
Scenarios ==
    { [cells |-> <<CodeCell(<<
          [output_type |-> "stream", name |-> "stdout", text |-> Str("1\n")],
          [output_type |-> "execute_result",
           data |-> Dict2("text/plain", Str("<Figure>"),
                          "image/png", GoodPayload)],
          [output_type |-> "error", ename |-> "ValueError", evalue |-> "bad",
           traceback |-> <<"Traceback", "ValueError: bad">>]>>)>>],
      [cells |-> <<[cell_type |-> "markdown", source |-> Str("# Title")],
                   [cell_type |-> "code", source |-> Str("print(1)"),
                    outputs |-> <<[output_type |-> "stream",
                                   name |-> "stdout", text |-> Str("1\n")]>>],
                   [cell_type |-> "raw", source |-> Str("---\n")]>>] }

\* Up to MaxCells cells of every type and shape of field; one code cell with
\* up to MaxOutputs outputs of every kind, alone or followed by a cell; one
\* code cell showing one image of every size.
Notebooks ==
    { [cells |-> cs] : cs \in SeqsUpTo(BasicCells, MaxCells) }
    \cup { [cells |-> <<CodeCell(outs)>> \o tl] :
             outs \in SeqsUpTo(OutputSet, MaxOutputs), tl \in Tails }
    \cup { [cells |-> <<CodeCell(<<o>>)>>] : o \in ImageOutputs }
    \cup Scenarios

Names == { <<"", "">>, <<"Ada", "hw1">> }

(***************************************************************************)
(* ep.preprocess(nb, resources), line 117.  ExecutePreprocessor goes       *)
(* through the cells of the notebook object it is given in order and       *)
(* writes each executed code cell's outputs into that same object; it      *)
(* returns that object.  A cell that is not a code cell, or whose source   *)
(* is blank, is passed over.  It raises when the kernel cannot be started  *)
(* or dies, when a cell lacks a field it reads, when a cell raises         *)
(* (CellExecutionError, after the cell's outputs were written) or when a   *)
(* cell runs into the timeout of line 108.                                 *)
(***************************************************************************)
KernelOutputs ==
    { <<[output_type |-> "stream", name |-> "stdout", text |-> Str("ran\n")]>> }

FailedCellOutputs ==
    { <<[output_type |-> "error", ename |-> "NameError",
         evalue |-> "name 'x' is not defined", traceback |-> <<"Traceback">>]>>,
      <<>> }

\* The fields the executor reads are there.
Readable(c) ==
    /\ "cell_type" \in DOMAIN c
    /\ c.cell_type = "code" => ("source" \in DOMAIN c /\ c.source.t = "str")

\* The executor runs the cell on the kernel.
Runs(c) == Readable(c) /\ c.cell_type = "code" /\ c.source.s # ""

\* cell.outputs = outs on the cell object.
WithOutputs(c, outs) ==
    [k \in DOMAIN c \cup {"outputs"} |-> IF k = "outputs" THEN outs ELSE c[k]]

\* The notebook object after the executor has written outs into cell n.
WriteOutputs(notebook, n, outs) ==
    [notebook EXCEPT !.cells[n] = WithOutputs(@, outs)]

Init ==
    /\ args \in Names
    /\ loaded \in Notebooks
    /\ nb = loaded
    /\ failed = FALSE
    /\ pc = "execute"
    /\ ex = 0
    /\ i = 0
    /\ j = 0
    /\ pdf = FPDF0
    /\ files = {}

\* The executor goes through one more cell.
ExecuteCell ==
    /\ pc = "execute"
    /\ ex < Len(nb.cells)
    /\ Readable(nb.cells[ex + 1])
    /\ IF Runs(nb.cells[ex + 1])
       THEN \E outs \in KernelOutputs : nb' = WriteOutputs(nb, ex + 1, outs)
       ELSE nb' = nb
    /\ ex' = ex + 1
    /\ UNCHANGED <<args, loaded, failed, pc, i, j, pdf, files>>

\* The cell the executor runs raises or times out: lines 122-125.
ExecuteCellError ==
    /\ pc = "execute"
    /\ ex < Len(nb.cells)
    /\ Runs(nb.cells[ex + 1])
    /\ \E outs \in FailedCellOutputs : nb' = WriteOutputs(nb, ex + 1, outs)
    /\ failed' = TRUE
    /\ pc' = "create"
    /\ UNCHANGED <<args, loaded, ex, i, j, pdf, files>>

\* The executor raises without having written to the cell it is at: the
\* kernel does not start or dies, or the cell lacks a field: lines 122-125.
ExecuteAbort ==
    /\ pc = "execute"
    /\ ex < Len(nb.cells) \/ ex = 0
    /\ failed' = TRUE
    /\ pc' = "create"
    /\ UNCHANGED <<args, loaded, nb, ex, i, j, pdf, files>>

\* ep.preprocess returns: lines 117-121, nb = executed_nb, the same object.
ExecuteDone ==
    /\ pc = "execute"
    /\ ex = Len(nb.cells)
    /\ pc' = "create"
    /\ UNCHANGED <<args, loaded, nb, failed, ex, i, j, pdf, files>>

\* Line 128.
CreatePDF ==
    /\ pc = "create"
    /\ pdf' = NotebookReportPDF(args[1], args[2])
    /\ pc' = "render"
    /\ UNCHANGED <<args, loaded, nb, failed, ex, i, j, files>>

\* Lines 131-142 and 163-174: the next cell's marker and content block.
RenderCell ==
    /\ pc = "render"
    /\ i < Len(nb.cells)
    /\ pdf' = CellHead(pdf, nb.cells[i + 1], i)
    /\ IF CellType(nb.cells[i + 1]) = "code"
       THEN pc' = "outputs" /\ j' = 0 /\ i' = i
       ELSE pc' = "render" /\ j' = j /\ i' = i + 1
    /\ UNCHANGED <<args, loaded, nb, failed, ex, files>>

\* Lines 143-161: the next output of the current code cell.
RenderOutput ==
    /\ pc = "outputs"
    /\ j < Len(Outputs(nb.cells[i + 1]))
    /\ LET r == ProcessOutput(pdf, files, Outputs(nb.cells[i + 1])[j + 1],
                              TempName(i, j))
       IN  /\ pdf' = r.pdf
           /\ files' = r.files
           /\ pc' = IF r.raised THEN "raised" ELSE "outputs"
    /\ j' = j + 1
    /\ UNCHANGED <<args, loaded, nb, failed, ex, i>>

\* Line 143: the outputs of the current code cell are exhausted.
EndOutputs ==
    /\ pc = "outputs"
    /\ j = Len(Outputs(nb.cells[i + 1]))
    /\ i' = i + 1
    /\ pc' = "render"
    /\ UNCHANGED <<args, loaded, nb, failed, ex, j, pdf, files>>

\* Line 176.
Return ==
    /\ pc = "render"
    /\ i = Len(nb.cells)
    /\ pc' = "done"
    /\ UNCHANGED <<args, loaded, nb, failed, ex, i, j, pdf, files>>

Next ==
    \/ ExecuteCell
    \/ ExecuteCellError
    \/ ExecuteAbort
    \/ ExecuteDone
    \/ CreatePDF
    \/ RenderCell
    \/ RenderOutput
    \/ EndOutputs
    \/ Return

Spec == Init /\ [][Next]_vars

(***************************************************************************)
(* Reading the document.                                                   *)
(***************************************************************************)
Doc == pdf.doc
Cells == nb.cells
Rendering == pc \in {"render", "outputs", "done"}

RECURSIVE KindPositions(_, _, _)
KindPositions(doc, kind, n) ==
    IF n > Len(doc) THEN <<>>
    ELSE (IF doc[n].kind = kind THEN <<n>> ELSE <<>>)
         \o KindPositions(doc, kind, n + 1)

MarkerPositions == KindPositions(Doc, "marker", 1)

\* The blocks between the k-th section-marker and the next one.
Segment(k) ==
    LET ps == MarkerPositions
    IN  SubSeq(Doc, ps[k] + 1,
               IF k < Len(ps) THEN ps[k + 1] - 1 ELSE Len(Doc))

\* The cells whose section-marker has been emitted.
Started == IF pc = "outputs" THEN i + 1 ELSE i

DeclaredType(c) == IF "cell_type" \in DOMAIN c THEN c.cell_type ELSE "unknown"

(***************************************************************************)
(* C1: while rendering, the document holds one section-marker per cell     *)
(* started, in notebook order, the k-th labelled "Cell k (type)" with the  *)
(* cell's cell_type or "unknown"; on return every one of the N cells has   *)
(* its marker.                                                             *)
(***************************************************************************)
C1_MarkerPerCell ==
    Rendering =>
        /\ Len(MarkerPositions) = Started
        /\ pc = "done" => Started = Len(Cells)
        /\ \A k \in 1..Len(MarkerPositions) :
               Doc[MarkerPositions[k]].text
                   = "Cell " \o ToString(k) \o " ("
                     \o DeclaredType(Cells[k]) \o ")"

C1_Witness ==
    /\ pc = "done"
    /\ Len(Cells) = MaxCells
    /\ Len(MarkerPositions) = MaxCells
    /\ "cell_type" \notin DOMAIN Cells[1]
    /\ "cell_type" \in DOMAIN Cells[MaxCells]

(***************************************************************************)
(* C2: whenever no add_image call is in progress, no temporary file        *)
(* created by add_image exists.                                            *)
(***************************************************************************)
C2_TempFileRemoved == Rendering => files = {}

(***************************************************************************)
(* C3: when execution failed, the notebook rendered is the notebook as     *)
(* loaded, the failure does not leave process_notebook, and the document   *)
(* returned is the complete rendering of the loaded notebook.              *)
(***************************************************************************)
C3_FallbackIsLoadedNotebook ==
    /\ pc # "raised"
    /\ (failed /\ pc \in {"create", "render", "outputs", "done"}) => nb = loaded
    /\ (failed /\ pc = "done") => pdf = RenderNotebook(args, loaded).pdf

(***************************************************************************)
(* Reading the notebook.                                                   *)
(***************************************************************************)
IsCode(c) == "cell_type" \in DOMAIN c /\ c.cell_type = "code"
DeclaredOutputs(c) == IF "outputs" \in DOMAIN c THEN c.outputs ELSE <<>>
TypeOf(o) == IF "output_type" \in DOMAIN o THEN o.output_type ELSE ""
IsDisplay(o) == TypeOf(o) \in {"display_data", "execute_result"}
HasKey(o, key) == "data" \in DOMAIN o /\ key \in DOMAIN o.data

\* <<k, m>>: output m of code cell k.
OutputSlots ==
    UNION { { <<k, m>> : m \in 1..Len(DeclaredOutputs(Cells[k])) } :
              k \in { n \in 1..Len(Cells) : IsCode(Cells[n]) } }
OutputAt(slot) == DeclaredOutputs(Cells[slot[1]])[slot[2]]

\* The output of that slot has been processed.
Processed(slot) ==
    \/ slot[1] <= i
    \/ pc = "outputs" /\ slot[1] = i + 1 /\ slot[2] <= j

IsBadImage(o) ==
    IsDisplay(o) /\ HasKey(o, "image/png") /\ o.data["image/png"] \in BadPayloads

RepairOutput(o) ==
    IF IsBadImage(o) THEN [o EXCEPT !.data["image/png"] = GoodPayload] ELSE o
RepairCell(c) ==
    IF "outputs" \in DOMAIN c
    THEN [c EXCEPT !.outputs = [m \in 1..Len(@) |-> RepairOutput(@[m])]]
    ELSE c
\* The notebook with every image that cannot be shown replaced by one that can.
Repaired == [cells |-> [k \in 1..Len(Cells) |-> RepairCell(Cells[k])]]

ImageErrorTexts ==
    { "Error displaying image: " \o reason :
        reason \in {"Incorrect padding", "cannot identify image file",
                    "Interlacing not supported"} }

(***************************************************************************)
(* C4: no exception leaves add_image; on return the document has one       *)
(* alert-coloured block "Error displaying image: ..." for each image that  *)
(* could not be decoded, opened or embedded, in the place the image block  *)
(* would have, and every other block, the font and the text colour are     *)
(* those of the rendering of the notebook with these images valid.         *)
(***************************************************************************)
C4_BadImageAbsorbed ==
    /\ pc # "raised"
    /\ pc = "done" =>
         LET ref == RenderNotebook(args, Repaired).pdf
         IN  /\ Len(Doc) = Len(ref.doc)
             /\ \A n \in 1..Len(Doc) :
                    IF Doc[n].kind = "image_error"
                    THEN /\ ref.doc[n].kind = "image"
                         /\ Doc[n].text_color = Red
                         /\ Doc[n].text \in ImageErrorTexts
                    ELSE Doc[n] = ref.doc[n]
             /\ Len(KindPositions(Doc, "image_error", 1))
                    = Cardinality({ sl \in OutputSlots : IsBadImage(OutputAt(sl)) })
             /\ pdf.font = ref.font
             /\ pdf.text_color = ref.text_color
             /\ pdf.fill_color = ref.fill_color

\* A failed image followed by a text output of the same cell and by a cell.
C4_Witness ==
    /\ pc = "done"
    /\ \E n \in 1..Len(Doc) :
          /\ Doc[n].kind = "image_error"
          /\ n + 2 <= Len(Doc)
          /\ Doc[n + 1].kind = "output"
          /\ Doc[n + 2].kind = "marker"

(***************************************************************************)
(* C5: between block emissions and on return the text colour is the        *)
(* default one; every block other than an error-block and an image-error   *)
(* block was emitted in the default colour, and the alert-coloured output  *)
(* blocks are as many as the error outputs processed.                      *)
(***************************************************************************)
C5_AlertColourOnlyOnErrors ==
    Rendering =>
        /\ pdf.text_color = Black
        /\ \A n \in 1..Len(Doc) :
               /\ Doc[n].kind \in {"header", "marker", "code", "markdown",
                                   "raw_label", "raw"}
                      => Doc[n].text_color = Black
               /\ Doc[n].kind = "image_error" => Doc[n].text_color = Red
               /\ Doc[n].kind = "output" => Doc[n].text_color \in {Black, Red}
        /\ Cardinality({ n \in 1..Len(Doc) :
                           Doc[n].kind = "output" /\ Doc[n].text_color = Red })
               = Cardinality({ sl \in OutputSlots :
                                 Processed(sl) /\ TypeOf(OutputAt(sl)) = "error" })

\* An error-block and an image-error block, each followed by other blocks.
C5_Witness ==
    /\ pc = "done"
    /\ \E n \in 1..Len(Doc) :
          /\ Doc[n].kind = "output" /\ Doc[n].text_color = Red
          /\ n + 2 <= Len(Doc)
          /\ Doc[n + 1].kind = "image_error"
          /\ Doc[n + 2].kind = "marker" /\ Doc[n + 2].text_color = Black

(***************************************************************************)
(* What a block shows: its kind and text; an output block in the alert     *)
(* colour is an error-block; an image-error block stands in the image's    *)
(* place.                                                                  *)
(***************************************************************************)
Shown(b) ==
    IF b.kind \in {"image", "image_error"} THEN <<"image">>
    ELSE IF b.kind = "output" /\ b.text_color = Red THEN <<"error", b.text>>
    ELSE <<b.kind, b.text>>

ShownSegment(k) == [n \in 1..Len(Segment(k)) |-> Shown(Segment(k)[n])]

Text(v) == IF v.t = "list" THEN JoinList("", v.l) ELSE v.s

\* The blocks the outputs of a code cell are to give, by output kind.
ExpectedOutput(o) ==
    IF TypeOf(o) = "stream"
    THEN << <<"output",
              (IF "name" \in DOMAIN o THEN o.name ELSE "output") \o ": "
              \o (IF "text" \in DOMAIN o THEN Text(o.text) ELSE "")>> >>
    ELSE IF IsDisplay(o)
    THEN (IF HasKey(o, "text/plain")
          THEN << <<"output", Text(o.data["text/plain"])>> >> ELSE <<>>)
         \o (IF HasKey(o, "image/png") THEN << <<"image">> >> ELSE <<>>)
    ELSE IF TypeOf(o) = "error"
    THEN << <<"error",
              (IF "ename" \in DOMAIN o THEN o.ename ELSE "Error") \o ": "
              \o (IF "evalue" \in DOMAIN o THEN o.evalue ELSE "") \o "\n"
              \o (IF "traceback" \in DOMAIN o
                  THEN JoinList("\n", o.traceback) ELSE "")>> >>
    ELSE <<>>

RECURSIVE ExpectedOutputs(_)
ExpectedOutputs(outs) ==
    IF outs = <<>> THEN <<>>
    ELSE ExpectedOutput(Head(outs)) \o ExpectedOutputs(Tail(outs))

(***************************************************************************)
(* C6: on return, the blocks after the section-marker of every code cell   *)
(* are its code-block and then the blocks of its outputs in declaration    *)
(* order: one output-block "name: text" for a stream, the text             *)
(* output-block and then the image-block for a display_data or             *)
(* execute_result, one error-block for an error.                           *)
(***************************************************************************)
C6_CodeCellBlocksInOrder ==
    pc = "done" =>
        /\ Len(MarkerPositions) = Len(Cells)
        /\ \A k \in 1..Len(Cells) :
               IsCode(Cells[k]) =>
                   /\ Len(Segment(k)) >= 1
                   /\ Segment(k)[1].kind = "code"
                   /\ Tail(ShownSegment(k))
                          = ExpectedOutputs(DeclaredOutputs(Cells[k]))

\* A stream, a result with text and image, and an error, in that order.
C6_Witness ==
    /\ pc = "done"
    /\ Len(Cells) = 1
    /\ IsCode(Cells[1])
    /\ Len(DeclaredOutputs(Cells[1])) = 3
    /\ TypeOf(Cells[1].outputs[1]) = "stream"
    /\ HasKey(Cells[1].outputs[2], "text/plain")
    /\ HasKey(Cells[1].outputs[2], "image/png")
    /\ TypeOf(Cells[1].outputs[3]) = "error"
    /\ Len(Segment(1)) = 5
    /\ Segment(1)[3].kind = "output"
    /\ Segment(1)[4].kind = "image"

(***************************************************************************)
(* Raw cells.                                                              *)
(***************************************************************************)
IsRaw(c) == "cell_type" \in DOMAIN c /\ c.cell_type = "raw"
HasFormat(c) == "metadata" \in DOMAIN c /\ "format" \in DOMAIN c.metadata
\* The label of a format value: the string, or the elements joined.
LabelOf(f) == IF f.t = "list" THEN JoinList(", ", f.l) ELSE f.s
\* The format value is there and is not the empty string or sequence.
NonEmptyFormat(c) ==
    /\ HasFormat(c)
    /\ c.metadata.format # Str("")
    /\ c.metadata.format # List(<<>>)
SourceText(c) == IF "source" \in DOMAIN c THEN Text(c.source) ELSE ""

RawWithLabel(c) ==
    << <<"raw_label", "Format: " \o LabelOf(c.metadata.format)>>,
       <<"raw", SourceText(c)>> >>
RawWithoutLabel(c) == << <<"raw", SourceText(c)>> >>

(***************************************************************************)
(* C7 as stated: on return, the blocks after the section-marker of every   *)
(* raw cell are the label line "Format: <label>" and the raw body when     *)
(* metadata.format is present and non-empty, and the raw body alone        *)
(* otherwise.                                                              *)
(***************************************************************************)
C7_LabelIffFormatNonEmpty ==
    pc = "done" =>
        /\ Len(MarkerPositions) = Len(Cells)
        /\ \A k \in 1..Len(Cells) :
               IsRaw(Cells[k]) =>
                   ShownSegment(k) = IF NonEmptyFormat(Cells[k])
                                     THEN RawWithLabel(Cells[k])
                                     ELSE RawWithoutLabel(Cells[k])

(***************************************************************************)
(* C7 as amended: on return, the blocks after the section-marker of every  *)
(* raw cell are the label line "Format: <label>" and the raw body when     *)
(* metadata.format is present and its label (the string itself, or the     *)
(* elements of the sequence joined with ", ") is not the empty string, and *)
(* the raw body alone otherwise.                                           *)
(***************************************************************************)
C7_LabelIffLabelNonEmpty ==
    pc = "done" =>
        /\ Len(MarkerPositions) = Len(Cells)
        /\ \A k \in 1..Len(Cells) :
               IsRaw(Cells[k]) =>
                   ShownSegment(k)
                       = IF HasFormat(Cells[k])
                            /\ LabelOf(Cells[k].metadata.format) # ""
                         THEN RawWithLabel(Cells[k])
                         ELSE RawWithoutLabel(Cells[k])

\* A raw cell whose format is a sequence of two strings, and one without.
C7_Witness ==
    /\ pc = "done"
    /\ Len(Cells) = 2
    /\ IsRaw(Cells[1]) /\ HasFormat(Cells[1])
    /\ Cells[1].metadata.format.t = "list"
    /\ Len(Cells[1].metadata.format.l) = 2
    /\ Len(Segment(1)) = 2
    /\ Segment(1)[1].text = "Format: text/x-python, text/plain"
    /\ IsRaw(Cells[2]) /\ ~HasFormat(Cells[2])
    /\ Len(Segment(2)) = 1

(***************************************************************************)
(* C8: no exception leaves the rendering; on return every cell has its     *)
(* section-marker; a cell without cell_type or of a type other than code,  *)
(* markdown and raw has no block after its marker; a code, markdown or raw *)
(* cell without source has its content block with the empty text; a code   *)
(* cell without outputs has its code-block alone.                          *)
(***************************************************************************)
C8_IncompleteCellsRender ==
    /\ pc # "raised"
    /\ pc = "done" =>
         /\ Len(MarkerPositions) = Len(Cells)
         /\ \A k \in 1..Len(Cells) :
              LET c == Cells[k]
                  seg == Segment(k)
              IN  /\ DeclaredType(c) \notin {"code", "markdown", "raw"}
                         => seg = <<>>
                  /\ (DeclaredType(c) \in {"code", "markdown", "raw"}
                        /\ "source" \notin DOMAIN c)
                         => \E n \in 1..Len(seg) :
                               /\ seg[n].kind = DeclaredType(c)
                               /\ seg[n].text = ""
                               /\ \A m \in 1..Len(seg) :
                                     seg[m].kind = DeclaredType(c) => m = n
                  /\ (IsCode(c) /\ "outputs" \notin DOMAIN c)
                         => Len(seg) = 1 /\ seg[1].kind = "code"

\* A cell without cell_type followed by a code cell without source and outputs.
C8_Witness ==
    /\ pc = "done"
    /\ Len(Cells) = 2
    /\ "cell_type" \notin DOMAIN Cells[1]
    /\ IsCode(Cells[2])
    /\ "source" \notin DOMAIN Cells[2]
    /\ "outputs" \notin DOMAIN Cells[2]
    /\ Len(MarkerPositions) = 2
    /\ Len(Segment(2)) = 1

(***************************************************************************)
(* Outputs that show nothing.                                              *)
(***************************************************************************)
IsSkipped(o) ==
    \/ TypeOf(o) \notin {"stream", "display_data", "execute_result", "error"}
    \/ IsDisplay(o) /\ ~HasKey(o, "text/plain") /\ ~HasKey(o, "image/png")

StripCell(c) ==
    IF "outputs" \in DOMAIN c
    THEN [c EXCEPT !.outputs = SelectSeq(@, LAMBDA o : ~IsSkipped(o))]
    ELSE c
\* The notebook with these outputs removed from their cells.
Stripped == [cells |-> [k \in 1..Len(Cells) |-> StripCell(Cells[k])]]

(***************************************************************************)
(* C9: no exception leaves the rendering, and on return the document, the  *)
(* font and the colours are those of the rendering of the notebook with    *)
(* every output of an unrecognised type, and every display_data or         *)
(* execute_result output with neither text/plain nor image/png, removed.   *)
(***************************************************************************)
C9_SkippedOutputsLeaveNoTrace ==
    /\ pc # "raised"
    /\ pc = "done" => pdf = RenderNotebook(args, Stripped).pdf

\* An output that shows nothing between the code-block and a shown output.
C9_Witness ==
    /\ pc = "done"
    /\ Len(Cells) >= 1
    /\ IsCode(Cells[1])
    /\ Len(DeclaredOutputs(Cells[1])) = 2
    /\ IsSkipped(Cells[1].outputs[1])
    /\ ~IsSkipped(Cells[1].outputs[2])
    /\ Len(Segment(1)) = 2

(***************************************************************************)
(* Images that are shown.                                                  *)
(***************************************************************************)
IsShownImage(o) ==
    IsDisplay(o) /\ HasKey(o, "image/png") /\ o.data["image/png"] \notin BadPayloads

RECURSIVE ShownImagesOf(_)
ShownImagesOf(outs) ==
    IF outs = <<>> THEN <<>>
    ELSE (IF IsShownImage(Head(outs))
          THEN <<Head(outs).data["image/png"].bytes>> ELSE <<>>)
         \o ShownImagesOf(Tail(outs))

RECURSIVE ShownImagesFrom(_)
ShownImagesFrom(k) ==
    IF k > Len(Cells) THEN <<>>
    ELSE (IF IsCode(Cells[k]) THEN ShownImagesOf(DeclaredOutputs(Cells[k]))
          ELSE <<>>)
         \o ShownImagesFrom(k + 1)

UsableWidth == PageW - 2 * LMargin

(***************************************************************************)
(* C10: on return, the n-th image block is the n-th decodable image of the *)
(* notebook, of native size W x H, placed with width w = min(U, W), so     *)
(* w <= W and w <= U, with height h = H * w / W and at                     *)
(* x = left margin + (U - w) / 2, so that it lies between the margins with *)
(* the same space on both sides.                                           *)
(***************************************************************************)
C10_ImageFitsAndCentred ==
    pc = "done" =>
        LET at == KindPositions(Doc, "image", 1)
            native == ShownImagesFrom(1)
        IN  /\ Len(at) = Len(native)
            /\ \A n \in 1..Len(at) :
                 LET b == Doc[at[n]]
                     W == native[n].width
                     H == native[n].height
                     U == UsableWidth
                 IN  /\ b.w = (IF U <= W THEN U ELSE W)
                     /\ b.w <= W
                     /\ b.w <= U
                     /\ b.h.num * W = H * b.w * b.h.den
                     /\ 2 * b.x.num = b.x.den * (2 * LMargin + U - b.w)
                     /\ b.x.num >= LMargin * b.x.den
                     /\ b.x.num + b.w * b.x.den <= (LMargin + U) * b.x.den
                     /\ b.x.num - LMargin * b.x.den
                            = (LMargin + U) * b.x.den - (b.x.num + b.w * b.x.den)

\* An image wider than the usable width, shrunk to it.
C10_Witness ==
    /\ pc = "done"
    /\ \E n \in 1..Len(Doc) :
          /\ Doc[n].kind = "image"
          /\ Doc[n].w = UsableWidth
          /\ ShownImagesFrom(1)[1].width = 2 * UsableWidth

====
